---- MODULE Spec2Model ----
(***************************************************************************)
(* A model of the DFHack Lua structure wrapper ("DF structure wrapper"):   *)
(* typed references to objects in game memory, field access with the       *)
(* inheritance shadowing rule, container references (resize / insert /     *)
(* erase) and the recursive table assignment rules, as laid down in the    *)
(* Lua API description of the repository.                                  *)
(***************************************************************************)
EXTENDS Integers, Sequences, FiniteSets, TLC

VARIABLES
  heap, last,                                   \* the structure wrapper
  owner, depth, frames, seen, tick, used,       \* the core suspend lock
  cont, lastc,                                  \* a lone container reference
  jobs, job_items, general_refs,                \* the job structures
  job_list, job_next_id, lastj,
  tiles, brush, origin, start, juststarted,     \* a brush at work on a map
  to_flood, flood_seen, points, done

wrapperVars == <<heap, last>>
suspendVars == <<owner, depth, frames, seen, tick, used>>
contVars    == <<cont, lastc>>
jobVars     == <<jobs, job_items, general_refs, job_list, job_next_id, lastj>>

brushVars   == <<tiles, brush, origin, start, juststarted, to_flood, flood_seen,
                 points, done>>

vars == <<wrapperVars, suspendVars, contVars, jobVars, brushVars>>

\* ------------------------------------------------------------------------
\* Bounds of the model
\* ------------------------------------------------------------------------
MaxAddr == 2    \* number of addresses of the modelled game memory
MaxInt  == 1    \* integer field and element values range over 0..MaxInt
MaxLen  == 3    \* containers hold at most MaxLen elements

Addrs == 1..MaxAddr
Ints  == 0..MaxInt
NULL  == 0
Root  == 1

\* ------------------------------------------------------------------------
\* Lua values: nil, numbers, booleans, df.NULL, references, tables
\* ------------------------------------------------------------------------
Nil      == [t |-> "nil",   n |-> 0, f |-> "", tab |-> <<>>]
Num(i)   == [t |-> "int",   n |-> i, f |-> "", tab |-> <<>>]
True     == [t |-> "bool",  n |-> 1, f |-> "", tab |-> <<>>]
False    == [t |-> "bool",  n |-> 0, f |-> "", tab |-> <<>>]
DfNull   == [t |-> "null",  n |-> 0, f |-> "", tab |-> <<>>]
RefV(a)  == [t |-> "ref",   n |-> a, f |-> "", tab |-> <<>>]
CRefV(a, fld) == [t |-> "cref", n |-> a, f |-> fld, tab |-> <<>>]
Tab(ps)  == [t |-> "table", n |-> 0, f |-> "", tab |-> ps]

\* Table keys: a field name, a name qualified by a type, or a number.
Name(s)    == [qual |-> "", name |-> s, idx |-> -1]
Qual(T, s) == [qual |-> T,  name |-> s, idx |-> -1]
Idx(i)     == [qual |-> "", name |-> "", idx |-> i]
P(k, v)    == [k |-> k, v |-> v]

IsNumKey(k) == k.name = "" /\ k.qual = ""

HasKey(ps, k) == \E i \in 1..Len(ps) : ps[i].k = k
Lookup(ps, k) == IF HasKey(ps, k)
                 THEN ps[CHOOSE i \in 1..Len(ps) : ps[i].k = k].v
                 ELSE Nil

\* ------------------------------------------------------------------------
\* Named types: the struct and class types of the wrapped structures
\* ------------------------------------------------------------------------
Fld(nm, kind, target) == [name |-> nm, kind |-> kind, target |-> target]

Parent(T) == CASE T = "Mid"     -> "Base"
               [] T = "Derived" -> "Mid"
               [] OTHER         -> ""

Fields(T) ==
  CASE T = "Base"    -> << Fld("f", "scalar", "") >>
    [] T = "Mid"     -> << Fld("f", "scalar", ""), Fld("g", "scalar", "") >>
    [] T = "Derived" -> << Fld("f", "scalar", ""), Fld("g", "scalar", "") >>
    [] T = "Node"    -> << Fld("x", "scalar", ""),
                           Fld("next", "pointer", "Node") >>
    [] T = "Holder"  -> << Fld("items", "container", "") >>
    [] OTHER         -> << >>

RECURSIVE Chain(_)
\* The inheritance chain of T, most-base type first.
Chain(T) == IF T = "" THEN << >> ELSE Append(Chain(Parent(T)), T)

Ancestors(T) == { Chain(T)[i] : i \in 1..(Len(Chain(T)) - 1) }

Declares(T, nm) == \E i \in 1..Len(Fields(T)) : Fields(T)[i].name = nm

FieldOf(T, nm) == Fields(T)[CHOOSE i \in 1..Len(Fields(T)) : Fields(T)[i].name = nm]

Slot(T, nm) == [type |-> T, name |-> nm]
NoSlot      == Slot("", "")

TypesOf(T) == { Chain(T)[i] : i \in 1..Len(Chain(T)) }

\* All storage slots of an object of type T (own and inherited fields).
Slots(T) == UNION { { Slot(U, Fields(U)[j].name) : j \in 1..Len(Fields(U)) } :
                    U \in TypesOf(T) }

\* is_instance: U is T or a subclass of T.
IsInstance(T, U) == T \in TypesOf(U)

\* The subscript under which slot s is exposed on a reference of type T.
\* Mutation of KeyOf: the subclass field takes the plain name and the
\* superclass fields it hides are the qualified ones.
KeyOfSubclassFirst(T, s) ==
  IF \E U \in TypesOf(T) : /\ s.type \in Ancestors(U)
                           /\ Declares(U, s.name)
  THEN Qual(s.type, s.name)
  ELSE Name(s.name)

\* Superclass fields have precedence: a field keeps its plain name unless a
\* superclass of its declaring type declares the same name, in which case it
\* is reachable as 'subclasstype.field' only.
KeyOf(T, s) ==
  IF \E U \in Ancestors(s.type) : Declares(U, s.name)
  THEN Qual(s.type, s.name)
  ELSE Name(s.name)

AllTypes == { "Base", "Mid", "Derived", "Node", "Holder" }

\* The field lookup table of every type, built once when the types are
\* registered: subscript -> storage slot.
FieldIndex ==
  [T \in AllTypes |->
     [k \in { KeyOf(T, s) : s \in Slots(T) } |->
        CHOOSE s \in Slots(T) : KeyOf(T, s) = k]]

Resolve(T, k) ==
  IF k \in DOMAIN FieldIndex[T] THEN FieldIndex[T][k] ELSE NoSlot

\* ------------------------------------------------------------------------
\* Game memory
\* ------------------------------------------------------------------------
Free == [type |-> "Free", data |-> [s \in {} |-> 0]]

DefaultCell(fld) == IF fld.kind = "container" THEN << >> ELSE 0

\* type:new(): a default-constructed object.
NewObject(T) ==
  [type |-> T,
   data |-> [s \in Slots(T) |-> DefaultCell(FieldOf(s.type, s.name))]]

Allocated(h) == { a \in Addrs : h[a].type # "Free" }

FreeAddr(h) == CHOOSE a \in Addrs \ Allocated(h) :
                 \A b \in Addrs \ Allocated(h) : a <= b

Write(h, a, s, c) == [h EXCEPT ![a].data[s] = c]

Ok(h)      == [err |-> "ok", heap |-> h]
Fail(e, h) == [err |-> e, heap |-> h]

Kind(h, a, s) == FieldOf(s.type, s.name).kind

\* ------------------------------------------------------------------------
\* Struct references: ref.field
\* ------------------------------------------------------------------------
GetField(h, a, k) ==
  LET s == Resolve(h[a].type, k) IN
  IF s = NoSlot THEN [err |-> "NoSuchField", val |-> Nil]
  ELSE CASE Kind(h, a, s) = "scalar"  -> [err |-> "ok", val |-> Num(h[a].data[s])]
         [] Kind(h, a, s) = "pointer" ->
              [err |-> "ok",
               val |-> IF h[a].data[s] = NULL THEN Nil ELSE RefV(h[a].data[s])]
         [] OTHER                     -> [err |-> "ok", val |-> CRefV(a, s.name)]

RECURSIVE SlotSeq(_)
\* The real fields of an object of type T in memory (= declaration) order.
SlotSeq(T) ==
  IF T = "" THEN << >>
  ELSE SlotSeq(Parent(T)) \o [j \in 1..Len(Fields(T)) |-> Slot(T, Fields(T)[j].name)]

\* Mutation of Pairs: every field is enumerated under its plain name.
PairsPlainNames(h, a) ==
  [i \in 1..Len(SlotSeq(h[a].type)) |->
     LET k == KeyOf(h[a].type, SlotSeq(h[a].type)[i])
     IN P(Name(SlotSeq(h[a].type)[i].name), GetField(h, a, k).val)]

\* pairs(ref): the sequence of field names and values.
Pairs(h, a) ==
  [i \in 1..Len(SlotSeq(h[a].type)) |->
     LET k == KeyOf(h[a].type, SlotSeq(h[a].type)[i])
     IN P(k, GetField(h, a, k).val)]

\* ------------------------------------------------------------------------
\* Container references
\* ------------------------------------------------------------------------
Elems(h, a, s) == h[a].data[s]

\* #ref
Length(h, a, s) == Len(Elems(h, a, s))

\* ref[index], 0-based
GetElem(h, a, s, i) ==
  IF i \in 0..(Length(h, a, s) - 1)
  THEN [err |-> "ok", val |-> Num(Elems(h, a, s)[i + 1])]
  ELSE [err |-> "IndexOutOfRange", val |-> Nil]

\* ref[index] = value
SetElem(h, a, s, k, v) ==
  IF ~IsNumKey(k) THEN Fail("NoSuchField", h)
  ELSE IF k.idx \notin 0..(Length(h, a, s) - 1) THEN Fail("IndexOutOfRange", h)
  ELSE IF v.t # "int" THEN Fail("TypeMismatch", h)
  ELSE Ok(Write(h, a, s, [Elems(h, a, s) EXCEPT ![k.idx + 1] = v.n]))

\* Mutation of Resize: the container grows by new_size elements.
ResizeGrowBy(h, a, s, n) ==
  IF n < 0 THEN Fail("ArgumentMismatch", h)
  ELSE Ok(Write(h, a, s,
        [i \in 1..(Length(h, a, s) + n) |->
           IF i <= Length(h, a, s) THEN Elems(h, a, s)[i] ELSE 0]))

\* ref:resize(new_size)
Resize(h, a, s, n) ==
  IF n < 0 THEN Fail("ArgumentMismatch", h)
  ELSE Ok(Write(h, a, s,
        [i \in 1..n |-> IF i <= Length(h, a, s) THEN Elems(h, a, s)[i] ELSE 0]))

\* Mutation of Insert: the new item overwrites the element at the index.
InsertOverwrite(h, a, s, i, v) ==
  LET e == Elems(h, a, s) IN
  IF i \notin 0..Len(e) THEN Fail("IndexOutOfRange", h)
  ELSE IF v.t # "int" THEN Fail("TypeMismatch", h)
  ELSE Ok(Write(h, a, s,
        [j \in 1..(Len(e) + 1) |->
           IF j = i + 1 THEN v.n ELSE IF j <= Len(e) THEN e[j] ELSE 0]))

\* ref:insert(index, item); index #ref adds at the end
Insert(h, a, s, i, v) ==
  LET e == Elems(h, a, s) IN
  IF i \notin 0..Len(e) THEN Fail("IndexOutOfRange", h)
  ELSE IF v.t # "int" THEN Fail("TypeMismatch", h)
  ELSE Ok(Write(h, a, s,
        [j \in 1..(Len(e) + 1) |->
           IF j < i + 1 THEN e[j] ELSE IF j = i + 1 THEN v.n ELSE e[j - 1]]))

\* Mutation of Erase: index #ref is taken as valid and drops the last element.
EraseLenient(h, a, s, i) ==
  LET e == Elems(h, a, s) IN
  IF i \notin 0..Len(e) \/ Len(e) = 0 THEN Fail("IndexOutOfRange", h)
  ELSE Ok(Write(h, a, s,
        [j \in 1..(Len(e) - 1) |-> IF j < i + 1 THEN e[j] ELSE e[j + 1]]))

\* ref:erase(index)
Erase(h, a, s, i) ==
  LET e == Elems(h, a, s) IN
  IF i \notin 0..(Len(e) - 1) THEN Fail("IndexOutOfRange", h)
  ELSE Ok(Write(h, a, s,
        [j \in 1..(Len(e) - 1) |-> IF j < i + 1 THEN e[j] ELSE e[j + 1]]))

\* ------------------------------------------------------------------------
\* Recursive table assignment
\* ------------------------------------------------------------------------
kAssign == Name("assign")
kNew    == Name("new")
kResize == Name("resize")

\* The #-size of a table: the keys 1..n are present and n+1 is not.
LuaLen(ps) ==
  CHOOSE n \in 0..Len(ps) :
    /\ \A i \in 1..n : HasKey(ps, Idx(i))
    /\ ~HasKey(ps, Idx(n + 1))

NumKeys(ps) == { ps[i].k.idx : i \in { j \in 1..Len(ps) : IsNumKey(ps[j].k) } }

MaxOf(S) == CHOOSE m \in S : \A x \in S : x <= m

\* Mutation of SizeForKeys: the largest numeric key itself is the size.
SizeIsLargestKey(ps) == IF NumKeys(ps) = {} THEN 0 ELSE MaxOf(NumKeys(ps))

\* resize = true: the size is computed by scanning the table for the largest
\* numeric key; keys are 0-based indices, so that key is the last element.
SizeForKeys(ps) == IF NumKeys(ps) = {} THEN 0 ELSE MaxOf(NumKeys(ps)) + 1

\* ref:assign(object) with another ref: the data of the object is copied.
CopyObject(h, a, b) ==
  IF ~IsInstance(h[a].type, h[b].type) THEN Fail("TypeMismatch", h)
  ELSE Ok([h EXCEPT ![a].data = [s \in Slots(h[a].type) |-> h[b].data[s]]])

\* Mutation of ApplyResize: resize = false resizes as resize = true does.
ApplyResizeAnyBoolean(h, a, s, ps) ==
  LET rs == Lookup(ps, kResize) IN
  CASE rs.t = "nil"  -> Ok(h)
    [] rs.t = "bool" -> Resize(h, a, s, SizeForKeys(ps))
    [] rs.t = "int"  -> Resize(h, a, s, rs.n)
    [] OTHER         -> Fail("ArgumentMismatch", h)

\* Rule 3b: 'resize' must be true, false, or an explicit number; if it is
\* not false, the container is resized.
ApplyResize(h, a, s, ps) ==
  LET rs == Lookup(ps, kResize) IN
  CASE rs.t = "nil"  -> Ok(h)
    [] rs.t = "bool" -> IF rs.n = 1 THEN Resize(h, a, s, SizeForKeys(ps)) ELSE Ok(h)
    [] rs.t = "int"  -> Resize(h, a, s, rs.n)
    [] OTHER         -> Fail("ArgumentMismatch", h)

RECURSIVE Assign(_, _, _), CopyTable(_, _, _, _), SetField(_, _, _, _),
          AssignPointer(_, _, _, _), AssignContainer(_, _, _, _),
          CopyElems(_, _, _, _, _), ListCopy(_, _, _, _, _, _)

\* Mutation of ListCopy: the lua array is copied to the same indices.
ListCopySameIndex(h, a, s, ps, i, n) ==
  IF i > n THEN Ok(h)
  ELSE LET r == SetElem(h, a, s, Idx(i), Lookup(ps, Idx(i))) IN
       IF r.err # "ok" THEN r ELSE ListCopy(r.heap, a, s, ps, i + 1, n)

\* for i=1,#table do ref[i-1] = table[i] end
ListCopy(h, a, s, ps, i, n) ==
  IF i > n THEN Ok(h)
  ELSE LET r == SetElem(h, a, s, Idx(i - 1), Lookup(ps, Idx(i))) IN
       IF r.err # "ok" THEN r ELSE ListCopy(r.heap, a, s, ps, i + 1, n)

\* The struct-like 'pairs' assignment on a container.
CopyElems(h, a, s, ps, i) ==
  IF i > Len(ps) THEN Ok(h)
  ELSE IF ps[i].k \in {kAssign, kNew, kResize} THEN CopyElems(h, a, s, ps, i + 1)
  ELSE LET r == SetElem(h, a, s, ps[i].k, ps[i].v) IN
       IF r.err # "ok" THEN r ELSE CopyElems(r.heap, a, s, ps, i + 1)

\* Rule 3: the target of the assignment is a container.
AssignContainer(h, a, s, v) ==
  IF v.t # "table" THEN Fail("TypeMismatch", h)
  ELSE
    LET ps == v.tab
        r1 == IF HasKey(ps, kAssign)
              THEN AssignContainer(h, a, s, Lookup(ps, kAssign))
              ELSE Ok(h)
    IN
    IF r1.err # "ok" THEN r1
    ELSE IF ~HasKey(ps, kAssign) /\ ~HasKey(ps, kResize)
    THEN LET r2 == Resize(r1.heap, a, s, LuaLen(ps)) IN
         IF r2.err # "ok" THEN r2
         ELSE ListCopy(r2.heap, a, s, ps, 1, LuaLen(ps))
    ELSE LET r2 == ApplyResize(r1.heap, a, s, ps) IN
         IF r2.err # "ok" THEN r2
         ELSE CopyElems(r2.heap, a, s, ps, 1)

\* Mutation of AssignPointer: a NULL pointer is initialized whether or not
\* the table has a 'new' field.
AssignPointerAlwaysNew(h, a, s, v) ==
  LET target == FieldOf(s.type, s.name).target IN
  IF h[a].data[s] # NULL THEN Assign(h, h[a].data[s], v)
  ELSE IF Allocated(h) = Addrs THEN Fail("OutOfMemory", h)
  ELSE LET b == FreeAddr(h) IN
       Assign(Write([h EXCEPT ![b] = NewObject(target)], a, s, b), b, v)

\* Rule 2: a table is assigned to a pointer field.
AssignPointer(h, a, s, v) ==
  LET target == FieldOf(s.type, s.name).target
      nw     == Lookup(v.tab, kNew)
  IN
  IF h[a].data[s] # NULL THEN Assign(h, h[a].data[s], v)
  ELSE IF nw.t = "nil" \/ nw = False THEN Fail("NullPointerAssignment", h)
  ELSE IF Allocated(h) = Addrs THEN Fail("OutOfMemory", h)
  ELSE IF nw = True
  THEN LET b == FreeAddr(h) IN
       Assign(Write([h EXCEPT ![b] = NewObject(target)], a, s, b), b, v)
  ELSE IF nw.t = "ref" /\ IsInstance(target, h[nw.n].type)
  THEN LET b == FreeAddr(h) IN
       Assign(Write([h EXCEPT ![b] = h[nw.n]], a, s, b), b, v)
  ELSE Fail("TypeMismatch", h)

\* ref.field = value
SetField(h, a, k, v) ==
  LET s == Resolve(h[a].type, k) IN
  IF s = NoSlot THEN Fail("NoSuchField", h)
  ELSE
    CASE Kind(h, a, s) = "scalar" ->
           IF v.t = "int" THEN Ok(Write(h, a, s, v.n)) ELSE Fail("TypeMismatch", h)
      [] Kind(h, a, s) = "pointer" ->
           CASE v.t \in {"nil", "null"} -> Ok(Write(h, a, s, NULL))
             [] v.t = "ref" ->
                  IF IsInstance(FieldOf(s.type, s.name).target, h[v.n].type)
                  THEN Ok(Write(h, a, s, v.n))
                  ELSE Fail("TypeMismatch", h)
             [] v.t = "table" -> AssignPointer(h, a, s, v)
             [] OTHER -> Fail("TypeMismatch", h)
      [] OTHER ->
           IF v.t = "table" THEN AssignContainer(h, a, s, v)
           ELSE Fail("TypeMismatch", h)

\* Mutation of CopyTable: 'new' is assigned as a usual field.
CopyTableNewIsField(h, a, ps, i) ==
  IF i > Len(ps) THEN Ok(h)
  ELSE IF ps[i].k = kAssign THEN CopyTable(h, a, ps, i + 1)
  ELSE LET r == SetField(h, a, ps[i].k, ps[i].v) IN
       IF r.err # "ok" THEN r ELSE CopyTable(r.heap, a, ps, i + 1)

\* rec_assign: for key,value in pairs(table) do ref[key] = value end,
\* where 'assign' and 'new' are never assigned as usual fields.
CopyTable(h, a, ps, i) ==
  IF i > Len(ps) THEN Ok(h)
  ELSE IF ps[i].k \in {kAssign, kNew} THEN CopyTable(h, a, ps, i + 1)
  ELSE LET r == SetField(h, a, ps[i].k, ps[i].v) IN
       IF r.err # "ok" THEN r ELSE CopyTable(r.heap, a, ps, i + 1)

\* Mutation of Assign: a failed assignment restores the memory it found.
AssignRollback(h, a, v) ==
  CASE v.t = "ref"   -> CopyObject(h, a, v.n)
    [] v.t = "table" ->
         LET r1 == IF HasKey(v.tab, kAssign)
                   THEN Assign(h, a, Lookup(v.tab, kAssign))
                   ELSE Ok(h)
             r2 == IF r1.err # "ok" THEN r1 ELSE CopyTable(r1.heap, a, v.tab, 1)
         IN IF r2.err # "ok" THEN Fail(r2.err, h) ELSE r2
    [] OTHER -> Fail("TypeMismatch", h)

\* Mutation of Assign: a table with an 'assign' field is done once that
\* field is applied.
AssignStopsAfterAssign(h, a, v) ==
  CASE v.t = "ref"   -> CopyObject(h, a, v.n)
    [] v.t = "table" ->
         IF HasKey(v.tab, kAssign)
         THEN Assign(h, a, Lookup(v.tab, kAssign))
         ELSE CopyTable(h, a, v.tab, 1)
    [] OTHER -> Fail("TypeMismatch", h)

\* ref:assign(object) on a struct reference.
Assign(h, a, v) ==
  CASE v.t = "ref"   -> CopyObject(h, a, v.n)
    [] v.t = "table" ->
         LET r1 == IF HasKey(v.tab, kAssign)
                   THEN Assign(h, a, Lookup(v.tab, kAssign))
                   ELSE Ok(h)
         IN IF r1.err # "ok" THEN r1 ELSE CopyTable(r1.heap, a, v.tab, 1)
    [] OTHER -> Fail("TypeMismatch", h)

\* ------------------------------------------------------------------------
\* The values the Lua scripts of the model hand to the wrapper
\* ------------------------------------------------------------------------
Lists == UNION { [1..n -> Ints] : n \in 0..MaxLen }

\* { v1, v2, ... }: an ordinary 1-based lua array
ListTab(l) == Tab([i \in 1..Len(l) |-> P(Idx(i), Num(l[i]))])

ContTables ==
  { ListTab(l) : l \in Lists }
  \cup { Tab(<< P(kResize, False), P(Idx(k), Num(v)) >>) : k \in 0..MaxLen, v \in Ints }
  \cup { Tab(<< P(kResize, True), P(Idx(k), Num(v)) >>) : k \in 0..(MaxLen - 1), v \in Ints }
  \cup { Tab(<< P(Idx(k), Num(v)), P(kResize, True), P(Idx(0), Num(MaxInt)) >>) :
           k \in 1..(MaxLen - 1), v \in Ints }
  \cup { Tab(<< P(kResize, True) >>) }
  \cup { Tab(<< P(kResize, Num(n)), P(Idx(0), Num(v)) >>) : n \in 0..MaxLen, v \in Ints }
  \cup { Tab(<< P(kAssign, ListTab(l)), P(Idx(0), Num(MaxInt)) >>) : l \in Lists }

\* Tables assigned to the pointer field 'next'.
PtrTables ==
  { Tab(<< P(kNew, b), P(Name("x"), Num(v)) >>) : b \in {True, False}, v \in Ints }
  \cup { Tab(<< P(Name("x"), Num(v)), P(kNew, True) >>) : v \in Ints }
  \cup { Tab(<< P(Name("x"), Num(v)) >>) : v \in Ints }
  \cup { Tab(<< P(kNew, True), P(Name("next"), DfNull) >>) }
  \cup { Tab(<< P(Name("x"), Num(MaxInt)), P(kNew, RefV(a)) >>) : a \in Addrs }

FieldKeys == { Name("f"), Name("g"), Name("x"), Name("next"), Name("items"),
               Qual("Mid", "f"), Qual("Derived", "f"), Qual("Derived", "g"),
               Name("nosuch") }

\* The subscripts a script reads on a reference of type T: every field of
\* the type, and one name that is no field.
KeysFor(T) == DOMAIN FieldIndex[T] \cup { Name("nosuch") }

\* The pairs <<key, value>> of the statements ref.key = value.
FieldWrites ==
  ((FieldKeys \ { Name("next"), Name("items") }) \X { Num(v) : v \in Ints })
  \cup ({ Name("next") } \X ({ DfNull, Num(0) } \cup { RefV(a) : a \in Addrs }
                              \cup PtrTables))
  \cup ({ Name("items") } \X ContTables)

WritesFor(T) == { w \in FieldWrites : w[1] \in KeysFor(T) }

\* Tables handed to ref:assign{...} on a struct reference.
StructTables ==
  PtrTables
  \cup { Tab(<< P(Name("next"), t) >>) : t \in PtrTables }
  \cup { Tab(<< P(kAssign, RefV(a)), P(Name("x"), Num(v)) >>) : a \in Addrs, v \in Ints }
  \cup { Tab(<< P(Name("x"), Num(v)), P(kAssign, Tab(<< P(Name("x"), Num(w)) >>)),
                P(Name("next"), DfNull) >>) : v \in Ints, w \in Ints }
  \cup { Tab(<< P(Name("items"), t) >>) : t \in ContTables }
  \cup { Tab(<< P(Name("f"), Num(v)), P(Qual("Derived", "f"), Num(w)) >>) :
           v \in Ints, w \in Ints }
  \cup { Tab(<< P(Name("g"), Num(v)), P(Name("nosuch"), Num(0)) >>) : v \in Ints }
  \cup { Tab(<< P(Name("x"), Num(v)), P(Name("next"), Tab(<< P(Name("x"), Num(w)) >>)) >>) :
           v \in Ints, w \in Ints }
  \cup { Tab(<< P(Name("next"), Tab(<< P(kNew, True), P(Name("x"), Num(v)) >>)),
                P(Name("nosuch"), Num(0)), P(Name("x"), Num(MaxInt)) >>) : v \in Ints }

FirstKey(v) == v.tab[CHOOSE i \in 1..Len(v.tab) : v.tab[i].k \notin {kAssign, kNew}].k

\* The tables a script assigns to a reference of type T name a field of T
\* in their first entry.
TablesFor(T) == { v \in StructTables : FirstKey(v) \in DOMAIN FieldIndex[T] }

RECURSIVE RefsOf(_)
\* The objects a value refers to.
RefsOf(v) ==
  CASE v.t = "ref"   -> { v.n }
    [] v.t = "table" -> UNION { RefsOf(v.tab[i].v) : i \in 1..Len(v.tab) }
    [] OTHER         -> { }

\* References to live objects; containers are fields of those objects.
StructRefs(h) == Allocated(h)

ContRefs(h) == { c \in Allocated(h) \X { Slot("Holder", "items") } :
                   c[2] \in Slots(h[c[1]].type) }

\* The model keeps containers within MaxLen elements and the memory
\* within MaxAddr objects.
WithinBounds(r) ==
  /\ r.err # "OutOfMemory"
  /\ \A c \in ContRefs(r.heap) : Length(r.heap, c[1], c[2]) <= MaxLen

\* What the script observes of a call: the operation, the reference it was
\* made on, the subscript and the value handed in, whether the call repeats
\* the call before it, the error raised (or "ok"), the value returned, and
\* the number of objects the call allocated.
Outcome(op, a, k, v, e, ret, h, h2) ==
  [op |-> op, ref |-> a, key |-> k, val |-> v,
   again |-> (<< op, a, k, v >> = << last.op, last.ref, last.key, last.val >>),
   err |-> e, ret |-> ret,
   alloc |-> Cardinality(Allocated(h2)) - Cardinality(Allocated(h))]

\* ------------------------------------------------------------------------
\* The parts of the program a specification leaves aside stay as they are
\* at program start
\* ------------------------------------------------------------------------
NoThread == 0

WrapperIdle ==
  /\ heap = [a \in Addrs |-> Free]
  /\ last = [op |-> "init", ref |-> Root, key |-> Name(""), val |-> Nil,
             again |-> FALSE, err |-> "ok", ret |-> Nil, alloc |-> 0]

SuspendIdle ==
  /\ owner = NoThread /\ depth = 0 /\ tick = 0 /\ used = {}
  /\ frames = << >> /\ seen = << >>

ContIdle ==
  /\ cont = [kind |-> "vector", policy |-> "strict", elems |-> << >>]
  /\ lastc = [op |-> "init", idx |-> 0, err |-> "ok", ret |-> Nil]

JobsIdle ==
  /\ jobs = << >> /\ job_items = << >> /\ general_refs = << >>
  /\ job_list = << >> /\ job_next_id = 0
  /\ lastj = [op |-> "init"]

BrushIdle ==
  /\ tiles = << >> /\ brush = "none" /\ origin = << 0, 0, 0 >>
  /\ start = << 0, 0, 0 >> /\ juststarted = TRUE
  /\ to_flood = << >> /\ flood_seen = {} /\ points = << >> /\ done = TRUE

\* ------------------------------------------------------------------------
\* The state machine
\* ------------------------------------------------------------------------
RootTypes == { "Mid", "Derived", "Node", "Holder" }

Init ==
  /\ \E T \in RootTypes :
       heap = [a \in Addrs |-> IF a = Root THEN NewObject(T) ELSE Free]
  /\ last = [op |-> "init", ref |-> Root, key |-> Name(""), val |-> Nil,
             again |-> FALSE, err |-> "ok", ret |-> Nil, alloc |-> 0]
  /\ SuspendIdle /\ ContIdle /\ JobsIdle /\ BrushIdle

\* v = ref.key
LuaIndex ==
  /\ UNCHANGED <<suspendVars, contVars, jobVars, brushVars>>
  /\ \E a \in StructRefs(heap) : \E k \in KeysFor(heap[a].type) :
       LET r == GetField(heap, a, k) IN
       /\ last' = Outcome("get", a, k, Nil, r.err, r.val, heap, heap)
       /\ UNCHANGED heap

\* ref.key = value
LuaNewIndex ==
  /\ UNCHANGED <<suspendVars, contVars, jobVars, brushVars>>
  /\ \E a \in StructRefs(heap) : \E w \in WritesFor(heap[a].type) :
       /\ RefsOf(w[2]) \subseteq Allocated(heap)
       /\ LET r == SetField(heap, a, w[1], w[2]) IN
          /\ WithinBounds(r)
          /\ heap' = r.heap
          /\ last' = Outcome("set", a, w[1], w[2], r.err, Nil, heap, r.heap)

\* ref:assign(object) on a struct reference
LuaAssign ==
  /\ UNCHANGED <<suspendVars, contVars, jobVars, brushVars>>
  /\ \E a \in StructRefs(heap) :
     \E v \in TablesFor(heap[a].type) \cup { RefV(b) : b \in Addrs } :
       /\ RefsOf(v) \subseteq Allocated(heap)
       /\ LET r == Assign(heap, a, v) IN
          /\ WithinBounds(r)
          /\ heap' = r.heap
          /\ last' = Outcome("assign", a, Name(""), v, r.err, Nil, heap, r.heap)

\* ref:assign{...} on a container reference
ContainerAssign ==
  /\ UNCHANGED <<suspendVars, contVars, jobVars, brushVars>>
  /\ \E c \in ContRefs(heap), v \in ContTables :
       LET r == AssignContainer(heap, c[1], c[2], v) IN
       /\ WithinBounds(r)
       /\ heap' = r.heap
       /\ last' = Outcome("cassign", c[1], Name(""), v, r.err, Nil, heap, r.heap)

\* v = ref[index]
ContainerIndex ==
  /\ UNCHANGED <<suspendVars, contVars, jobVars, brushVars>>
  /\ \E c \in ContRefs(heap), i \in -1..MaxLen :
       LET r == GetElem(heap, c[1], c[2], i) IN
       /\ last' = Outcome("cget", c[1], Idx(i), Nil, r.err, r.val, heap, heap)
       /\ UNCHANGED heap

\* ref[index] = value
ContainerNewIndex ==
  /\ UNCHANGED <<suspendVars, contVars, jobVars, brushVars>>
  /\ \E c \in ContRefs(heap), i \in -1..MaxLen, v \in Ints :
       LET r == SetElem(heap, c[1], c[2], Idx(i), Num(v)) IN
       /\ heap' = r.heap
       /\ last' = Outcome("cset", c[1], Idx(i), Num(v), r.err, Nil, heap, r.heap)

\* ref:resize(new_size)
ContainerResize ==
  /\ UNCHANGED <<suspendVars, contVars, jobVars, brushVars>>
  /\ \E c \in ContRefs(heap), n \in 0..MaxLen :
       LET r == Resize(heap, c[1], c[2], n) IN
       /\ heap' = r.heap
       /\ last' = Outcome("resize", c[1], Idx(n), Nil, r.err, Nil, heap, r.heap)

\* ref:insert(index, item)
ContainerInsert ==
  /\ UNCHANGED <<suspendVars, contVars, jobVars, brushVars>>
  /\ \E c \in ContRefs(heap), i \in -1..(MaxLen + 1), v \in Ints :
       LET r == Insert(heap, c[1], c[2], i, Num(v)) IN
       /\ WithinBounds(r)
       /\ heap' = r.heap
       /\ last' = Outcome("insert", c[1], Idx(i), Num(v), r.err, Nil, heap, r.heap)

\* ref:erase(index)
ContainerErase ==
  /\ UNCHANGED <<suspendVars, contVars, jobVars, brushVars>>
  /\ \E c \in ContRefs(heap), i \in -1..(MaxLen + 1) :
       LET r == Erase(heap, c[1], c[2], i) IN
       /\ heap' = r.heap
       /\ last' = Outcome("erase", c[1], Idx(i), Nil, r.err, Nil, heap, r.heap)

Next ==
  \/ LuaIndex
  \/ LuaNewIndex
  \/ LuaAssign
  \/ ContainerAssign
  \/ ContainerIndex
  \/ ContainerNewIndex
  \/ ContainerResize
  \/ ContainerInsert
  \/ ContainerErase

Spec == Init /\ [][Next]_vars

\* ------------------------------------------------------------------------
\* Properties
\* ------------------------------------------------------------------------
Data(h, a, T, nm) == h[a].data[Slot(T, nm)]

\* The first type of the inheritance chain of T that declares nm.
MostBase(T, nm) ==
  Chain(T)[CHOOSE i \in 1..Len(Chain(T)) :
             /\ Declares(Chain(T)[i], nm)
             /\ \A j \in 1..(i - 1) : ~Declares(Chain(T)[j], nm)]

FieldNames == { "f", "g" }

\* C1 as stated: for every type D that derives from a type B, both
\* declaring a field nm, reading the plain name nm on a reference of type D
\* returns the field of B, and reading 'D.nm' returns the field of D.
C1_AnySuperclassFieldRead ==
  \A B \in AllTypes, nm \in FieldNames :
    LET D == heap[last.ref].type IN
    (/\ last.op = "get"
     /\ B \in Ancestors(D) /\ Declares(B, nm) /\ Declares(D, nm))
    => /\ last.key = Name(nm) =>
            (last.err = "ok" /\ last.ret = Num(Data(heap, last.ref, B, nm)))
       /\ last.key = Qual(D, nm) =>
            (last.err = "ok" /\ last.ret = Num(Data(heap, last.ref, D, nm)))

\* C1 amended: reading the plain name nm on a reference of type D returns
\* the field of the most-base type of D's inheritance chain that declares
\* nm (the field of B when no superclass of B declares nm), and reading
\* 'D.nm' returns the field D declares.
C1_MostBaseFieldRead ==
  \A nm \in FieldNames :
    LET D == heap[last.ref].type IN
    (/\ last.op = "get"
     /\ Declares(D, nm)
     /\ \E B \in Ancestors(D) : Declares(B, nm))
    => /\ last.key = Name(nm) =>
            (last.err = "ok"
             /\ last.ret = Num(Data(heap, last.ref, MostBase(D, nm), nm)))
       /\ last.key = Qual(D, nm) =>
            (last.err = "ok" /\ last.ret = Num(Data(heap, last.ref, D, nm)))

C1_Witness ==
  /\ last.op = "get" /\ last.key = Name("f")
  /\ heap[last.ref].type = "Derived"
  /\ Data(heap, last.ref, "Base", "f") = MaxInt
  /\ Data(heap, last.ref, "Mid", "f") = 0
  /\ Data(heap, last.ref, "Derived", "f") = 0
  /\ last.ret = Num(MaxInt)

NextSlot == Slot("Node", "next")

HasNullNext(h, a) == h[a].type = "Node" /\ h[a].data[NextSlot] = NULL

NoNew(v) == v.t = "table" /\ Lookup(v.tab, kNew) \in { Nil, False }

\* C2: reading a pointer field that is NULL returns nil and raises no error;
\* assigning a table with no 'new' entry (or new = false) to a NULL pointer
\* field fails with NullPointerAssignment.
C2_NullPointerReadAndWrite ==
  [][ /\ (last'.op = "get" /\ last'.key = Name("next") /\ HasNullNext(heap, last'.ref))
           => (last'.err = "ok" /\ last'.ret = Nil)
      /\ (/\ last'.op = "set" /\ last'.key = Name("next")
          /\ HasNullNext(heap, last'.ref) /\ NoNew(last'.val))
           => (last'.err = "NullPointerAssignment" /\ heap' = heap)
      /\ (/\ last'.op = "assign" /\ last'.val.t = "table"
          /\ last'.val.tab # << >> /\ last'.val.tab[1].k = Name("next")
          /\ HasNullNext(heap, last'.ref) /\ NoNew(last'.val.tab[1].v))
           => (last'.err = "NullPointerAssignment" /\ heap' = heap)
    ]_vars

C2_Witness ==
  /\ last.op = "set" /\ last.key = Name("next")
  /\ last.val = Tab(<< P(kNew, False), P(Name("x"), Num(MaxInt)) >>)
  /\ last.err = "NullPointerAssignment"
  /\ HasNullNext(heap, last.ref)

NewTrueX(v) ==
  /\ v.t = "table" /\ Len(v.tab) = 2
  /\ Lookup(v.tab, kNew) = True
  /\ Lookup(v.tab, Name("x")).t = "int"

\* C3: assigning {new=true, x=v} to a NULL pointer field allocates an object
\* of the declared target type, binds the pointer to it, sets its field x
\* to v, and does not take 'new' for a field of the target.
C3_AutoVivify ==
  [][ (/\ last'.op = "set" /\ last'.key = Name("next")
       /\ HasNullNext(heap, last'.ref) /\ NewTrueX(last'.val))
      => LET a == last'.ref
             b == heap'[a].data[NextSlot]
             v == Lookup(last'.val.tab, Name("x")).n
         IN /\ last'.err = "ok"
            /\ last'.alloc = 1
            /\ b # NULL /\ b \notin Allocated(heap)
            /\ heap'[b] = [NewObject("Node") EXCEPT !.data[Slot("Node", "x")] = v]
            /\ heap'[a] = [heap[a] EXCEPT !.data[NextSlot] = b]
            /\ \A c \in Addrs \ {a, b} : heap'[c] = heap[c]
    ]_vars

C3_Witness ==
  /\ last.op = "set" /\ last.key = Name("next")
  /\ last.val = Tab(<< P(kNew, True), P(Name("x"), Num(MaxInt)) >>)
  /\ last.alloc = 1 /\ last.err = "ok"
  /\ heap[last.ref].data[NextSlot] # NULL
  /\ Data(heap, heap[last.ref].data[NextSlot], "Node", "x") = MaxInt

ItemsSlot == Slot("Holder", "items")

Items(h, a) == h[a].data[ItemsSlot]

\* C4: insert(c, i, v) with 0 <= i <= n gives length n+1, v at index i and
\* the elements from index i on moved up by one; erase(c, i) with
\* 0 <= i < n gives length n-1 and the elements after index i moved down by
\* one; the other elements keep index and value.
C4_InsertEraseShift ==
  [][ LET a  == last'.ref
          i  == last'.key.idx
          e  == Items(heap, a)
          e2 == Items(heap', a)
      IN
      /\ (last'.op = "insert" /\ i \in 0..Len(e))
           => /\ last'.err = "ok"
              /\ Len(e2) = Len(e) + 1
              /\ e2[i + 1] = last'.val.n
              /\ \A j \in 0..(Len(e) - 1) :
                   IF j >= i THEN e2[j + 2] = e[j + 1] ELSE e2[j + 1] = e[j + 1]
              /\ heap' = Write(heap, a, ItemsSlot, e2)
      /\ (last'.op = "erase" /\ i \in 0..(Len(e) - 1))
           => /\ last'.err = "ok"
              /\ Len(e2) = Len(e) - 1
              /\ \A j \in 0..(Len(e) - 1) :
                   /\ j > i => e2[j] = e[j + 1]
                   /\ j < i => e2[j + 1] = e[j + 1]
              /\ heap' = Write(heap, a, ItemsSlot, e2)
    ]_vars

C4_Witness ==
  /\ last.op = "insert" /\ last.key = Idx(1) /\ last.val = Num(MaxInt)
  /\ last.err = "ok"
  /\ Items(heap, last.ref) = << 0, MaxInt, 0 >>

\* C5: insert(c, i, v) with i > length(c) or i < 0, and erase(c, i) with
\* i >= length(c) or i < 0, fail with IndexOutOfRange and change nothing;
\* index length(c) is accepted by insert and rejected by erase.
C5_InsertEraseRange ==
  [][ LET a == last'.ref
          i == last'.key.idx
          n == Len(Items(heap, a))
      IN
      /\ last'.op = "insert" =>
           /\ (i \notin 0..n) => (last'.err = "IndexOutOfRange" /\ heap' = heap)
           /\ (i = n) => last'.err = "ok"
      /\ last'.op = "erase" =>
           /\ (i \notin 0..(n - 1)) => (last'.err = "IndexOutOfRange" /\ heap' = heap)
           /\ (i \in 0..(n - 1)) => last'.err = "ok"
    ]_vars

C5_Witness ==
  /\ last.op = "erase" /\ last.err = "IndexOutOfRange"
  /\ Len(Items(heap, last.ref)) >= 1
  /\ last.key = Idx(Len(Items(heap, last.ref)))

\* The call recorded in l assigned a table to a container.
ContTarget(l) ==
  /\ l.val.t = "table"
  /\ l.op = "cassign" \/ (l.op = "set" /\ l.key = Name("items"))

SingleElement(v) ==
  /\ Len(v.tab) = 2
  /\ v.tab[1] = P(kResize, False)
  /\ IsNumKey(v.tab[2].k) /\ v.tab[2].v.t = "int"

\* C6: assign(c, {resize=false, [k]=v}) with k a valid index changes
\* element k only: the length and every other element stay as they were.
C6_SingleElementAssign ==
  [][ (/\ ContTarget(last') /\ SingleElement(last'.val)
       /\ last'.val.tab[2].k.idx \in 0..(Len(Items(heap, last'.ref)) - 1))
      => LET a == last'.ref
             k == last'.val.tab[2].k.idx
             e == Items(heap, a)
         IN /\ last'.err = "ok"
            /\ Len(Items(heap', a)) = Len(e)
            /\ \A j \in 0..(Len(e) - 1) :
                 GetElem(heap', a, ItemsSlot, j).val =
                   IF j = k THEN last'.val.tab[2].v ELSE Num(e[j + 1])
            /\ heap' = Write(heap, a, ItemsSlot, Items(heap', a))
    ]_vars

C6_Witness ==
  /\ last.op = "cassign" /\ last.err = "ok"
  /\ last.val = Tab(<< P(kResize, False), P(Idx(1), Num(MaxInt)) >>)
  /\ Items(heap, last.ref) = << 0, MaxInt, 0 >>

ListForm(v) == ~HasKey(v.tab, kAssign) /\ ~HasKey(v.tab, kResize)

ResizeTrue(v) == Lookup(v.tab, kResize) = True /\ ~HasKey(v.tab, kAssign)

NumEntries(ps) == { i \in 1..Len(ps) : IsNumKey(ps[i].k) }

HasAssign(v) == v.t = "table" /\ HasKey(v.tab, kAssign)

NotAssign(p) == p.k # kAssign

\* C9 as stated: when the table has an 'assign' entry the target's assign
\* is called with the value of the entry and nothing else of the table is
\* applied.
C9_AssignEntryOnly ==
  [][ /\ (last'.op = "assign" /\ HasAssign(last'.val))
           => heap' = Assign(heap, last'.ref, Lookup(last'.val.tab, kAssign)).heap
      /\ (ContTarget(last') /\ HasAssign(last'.val))
           => heap' = AssignContainer(heap, last'.ref, ItemsSlot,
                                      Lookup(last'.val.tab, kAssign)).heap
    ]_vars

\* C9 amended: when the table has an 'assign' entry the target's assign is
\* called with the value of the entry first; if that succeeds the other
\* keys of the table are then applied as usual (on a container by the
\* per-key assignment), and 'assign' is never set as a field.
C9_AssignEntryFirst ==
  [][ /\ (last'.op = "assign" /\ HasAssign(last'.val))
           => LET r1   == Assign(heap, last'.ref, Lookup(last'.val.tab, kAssign))
                  rest == Tab(SelectSeq(last'.val.tab, NotAssign))
                  r2   == IF r1.err = "ok" THEN Assign(r1.heap, last'.ref, rest)
                          ELSE r1
              IN heap' = r2.heap /\ last'.err = r2.err
      /\ (ContTarget(last') /\ HasAssign(last'.val))
           => LET r1   == AssignContainer(heap, last'.ref, ItemsSlot,
                                          Lookup(last'.val.tab, kAssign))
                  rest == SelectSeq(last'.val.tab, NotAssign)
                  r2   == IF r1.err = "ok"
                          THEN CopyElems(r1.heap, last'.ref, ItemsSlot, rest, 1)
                          ELSE r1
              IN heap' = r2.heap /\ last'.err = r2.err
    ]_vars

C9_Witness ==
  /\ last.op = "assign" /\ last.err = "ok"
  /\ last.val = Tab(<< P(Name("x"), Num(0)),
                       P(kAssign, Tab(<< P(Name("x"), Num(MaxInt)) >>)),
                       P(Name("next"), DfNull) >>)
  /\ Data(heap, last.ref, "Node", "x") = 0

RECURSIVE Plain(_)
\* The leaves of v are numbers and booleans: no reference and no df.NULL.
Plain(v) ==
  CASE v.t \in { "int", "bool" } -> TRUE
    [] v.t = "table" -> \A i \in 1..Len(v.tab) : Plain(v.tab[i].v)
    [] OTHER -> FALSE

RECURSIVE Visits(_, _, _), VisitsFrom(_, _, _, _)
\* The objects the walk of table v over the object a goes through, in order.
Visits(h, a, v) == << a >> \o VisitsFrom(h, a, v.tab, 1)

VisitsFrom(h, a, ps, i) ==
  IF i > Len(ps) THEN << >>
  ELSE LET s == Resolve(h[a].type, ps[i].k)
           down == /\ s # NoSlot /\ ps[i].v.t = "table"
                   /\ Kind(h, a, s) = "pointer" /\ h[a].data[s] # NULL
       IN (IF down THEN Visits(h, h[a].data[s], ps[i].v) ELSE << >>)
          \o VisitsFrom(h, a, ps, i + 1)

\* The objects the call recorded in l goes through on the memory h,
\* the object the call is made on first.
CallVisits(h, l) ==
  IF l.op = "assign" THEN Visits(h, l.ref, l.val)
  ELSE IF l.op = "set" THEN << l.ref >> \o VisitsFrom(h, l.ref, << P(l.key, l.val) >>, 1)
  ELSE << l.ref >>

\* The walk reaches no object twice.
TreeWalk(h, l) ==
  \A i, j \in 1..Len(CallVisits(h, l)) :
    CallVisits(h, l)[i] = CallVisits(h, l)[j] => i = j

\* C10 as stated: applying the same table assignment twice in succession
\* leaves the memory as applying it once did, for every target and table.
C10_AlwaysIdempotent ==
  [][ (last'.again /\ last'.val.t = "table") => heap' = heap ]_vars

\* C10 amended: applying the same table assignment twice in succession
\* leaves the memory as applying it once did, when the leaves of the table
\* are plain values (no reference and no df.NULL) and the walk reaches every
\* object once (no cyclic or aliased pointer on its way).
C10_PlainTreeIdempotent ==
  [][ (/\ last'.again /\ last'.val.t = "table"
       /\ Plain(last'.val) /\ TreeWalk(heap, last'))
      => (heap' = heap /\ last'.err = last.err /\ last'.alloc = 0) ]_vars

C10_Witness ==
  /\ last.again /\ last.op = "assign" /\ last.err = "ok" /\ last.alloc = 0
  /\ last.val = Tab(<< P(Name("next"),
                         Tab(<< P(kNew, True), P(Name("x"), Num(MaxInt)) >>)) >>)
  /\ heap[last.ref].data[NextSlot] \notin { NULL, last.ref }
  /\ Data(heap, heap[last.ref].data[NextSlot], "Node", "x") = MaxInt

RECURSIVE Matches(_, _, _), RoundTrip(_, _, _)
\* The value got read back is the value v a table gave: a number or a
\* reference as it is, df.NULL as nil, and a nested table by the fields of
\* the object, or the elements of the container, that was read back.
Matches(h, got, v) ==
  CASE v.t \in { "int", "ref" } -> got = v
    [] v.t = "null" -> got = Nil
    [] v.t = "table" ->
         CASE got.t = "ref"  -> RoundTrip(h, got.n, v.tab)
           [] got.t = "cref" ->
                LET s == Resolve(h[got.n].type, Name(got.f)) IN
                IF ListForm(v)
                THEN /\ Length(h, got.n, s) = LuaLen(v.tab)
                     /\ \A i \in 1..LuaLen(v.tab) :
                          GetElem(h, got.n, s, i - 1).val = Lookup(v.tab, Idx(i))
                ELSE \A i \in NumEntries(v.tab) :
                       GetElem(h, got.n, s, v.tab[i].k.idx).val = v.tab[i].v
           [] OTHER -> FALSE
    [] OTHER -> FALSE

\* Iterating the object a recovers every entry of ps that names a real field.
RoundTrip(h, a, ps) ==
  \A i \in 1..Len(ps) :
    Resolve(h[a].type, ps[i].k) # NoSlot
    => /\ HasKey(Pairs(h, a), ps[i].k)
       /\ Matches(h, Lookup(Pairs(h, a), ps[i].k), ps[i].v)

\* C11 as stated: after a successful assign(ref, X) on a struct reference,
\* iterating ref yields, for every key of X that names a real field, the
\* value X gave to that key.
C11_RoundTripAlways ==
  [][ (last'.op = "assign" /\ last'.val.t = "table" /\ last'.err = "ok")
      => RoundTrip(heap', last'.ref, last'.val.tab) ]_vars

\* C11 amended: after a successful assign(ref, X) on a struct reference whose
\* walk reaches every object once (no pointer on its way leads back to an
\* object the walk also writes), iterating ref yields, for every key of X
\* that names a real field, the value X gave to that key, whatever the order
\* of the keys in X.
C11_RoundTripOnTree ==
  [][ (/\ last'.op = "assign" /\ last'.val.t = "table" /\ last'.err = "ok"
       /\ TreeWalk(heap, last'))
      => RoundTrip(heap', last'.ref, last'.val.tab) ]_vars

C11_Witness ==
  /\ last.op = "assign" /\ last.err = "ok"
  /\ last.val = Tab(<< P(Name("x"), Num(MaxInt)),
                       P(Name("next"), Tab(<< P(Name("x"), Num(0)) >>)) >>)
  /\ heap[last.ref].data[NextSlot] \notin { NULL, last.ref }
  /\ Lookup(Pairs(heap, last.ref), Name("x")) = Num(MaxInt)
  /\ Data(heap, heap[last.ref].data[NextSlot], "Node", "x") = 0

\* The objects that a pointer field of a live object points to.
Bound(h) ==
  UNION { { h[a].data[s] : s \in { NextSlot } \cap Slots(h[a].type) } :
          a \in Allocated(h) }
  \ { NULL }

\* C12: when a recursive assignment fails part-way through its walk, the
\* keys after the failing one are not applied, every object that was
\* allocated earlier in the walk stays allocated and bound to its pointer
\* field, and the fields written before the failure keep their new values:
\* the memory is the one the keys before the failing key and that key
\* itself left.
C12_NoRollback ==
  [][ (/\ last'.op \in { "assign", "set" } /\ last'.val.t = "table"
       /\ last'.err # "ok")
      => /\ Allocated(heap) \subseteq Allocated(heap')
         /\ (Allocated(heap') \ Allocated(heap)) \subseteq Bound(heap')
         /\ last'.alloc = Cardinality(Allocated(heap') \ Allocated(heap))
         /\ (last'.op = "assign" /\ ~HasAssign(last'.val))
              => \E i \in 1..Len(last'.val.tab) :
                   LET ps == last'.val.tab
                       r1 == Assign(heap, last'.ref, Tab(SubSeq(ps, 1, i - 1)))
                       r2 == Assign(r1.heap, last'.ref, Tab(<< ps[i] >>))
                   IN /\ r1.err = "ok"
                      /\ r2.err = last'.err
                      /\ heap' = r2.heap
    ]_vars

C12_Witness ==
  /\ last.op = "assign" /\ last.err = "NoSuchField" /\ last.alloc = 1
  /\ last.val = Tab(<< P(Name("next"), Tab(<< P(kNew, True), P(Name("x"), Num(MaxInt)) >>)),
                       P(Name("nosuch"), Num(0)), P(Name("x"), Num(MaxInt)) >>)
  /\ heap[last.ref].data[NextSlot] # NULL
  /\ Data(heap, heap[last.ref].data[NextSlot], "Node", "x") = MaxInt
  /\ Data(heap, last.ref, "Node", "x") = 0

\* ------------------------------------------------------------------------
\* dfhack.with_suspend: the DF core suspend lock
\* ------------------------------------------------------------------------
MaxThreads == 2    \* lua threads calling dfhack.with_suspend
MaxNest    == 2    \* with_suspend calls one thread nests
MaxTick    == 2    \* DF frames the game runs

Threads == 1..MaxThreads

\* The nesting depth at which thread t holds the suspend lock.
Held(t) == IF owner = t THEN depth ELSE 0

\* Mutation of CanSuspend: the lock admits no thread while it is held.
CanSuspendWhenFree(t) == owner = NoThread /\ t \notin used

\* A thread standing at a with_suspend call is either the one that holds
\* the lock (it is safe to nest suspends) or is let in when the lock is
\* free and the thread has not suspended in this DF frame.
CanSuspend(t) == owner = t \/ (owner = NoThread /\ t \notin used)

\* The holder of the lock once thread t went from depth d + 1 to depth d.
OwnerAfter(t, d) == IF d = 0 THEN NoThread ELSE t

\* Mutation of DepthAfter: an error in f leaves the function at once.
DepthAfterReturnOnly(d, phase) == IF phase = "raised" THEN d ELSE d - 1

\* The depth of the lock once with_suspend released it: it is released
\* after f returned and after f raised an error alike.
DepthAfter(d, phase) == d - 1

SuspendInit ==
  /\ owner = NoThread /\ depth = 0 /\ tick = 0 /\ used = {}
  /\ frames = [t \in Threads |-> << >>]
  /\ seen = [t \in Threads |-> [kind |-> "none", before |-> 0, after |-> 0]]
  /\ WrapperIdle /\ ContIdle /\ JobsIdle /\ BrushIdle

Top(t) == frames[t][Len(frames[t])]

\* A thread, or the function f it runs under the lock, calls
\* dfhack.with_suspend(f, ...).
WithSuspendCall(t) ==
  /\ Len(frames[t]) < MaxNest
  /\ frames[t] # << >> => Top(t).phase = "running"
  /\ frames' = [frames EXCEPT ![t] =
                  Append(@, [phase |-> "waiting", before |-> Held(t)])]
  /\ UNCHANGED <<owner, depth, seen, tick, used>>
  /\ UNCHANGED <<wrapperVars, contVars, jobVars, brushVars>>

\* with_suspend grabs the lock and calls f.
WithSuspendGrab(t) ==
  /\ frames[t] # << >> /\ Top(t).phase = "waiting"
  /\ CanSuspend(t)
  /\ owner' = t
  /\ depth' = Held(t) + 1
  /\ used' = used \cup { t }
  /\ frames' = [frames EXCEPT ![t][Len(frames[t])].phase = "running"]
  /\ UNCHANGED <<seen, tick>>
  /\ UNCHANGED <<wrapperVars, contVars, jobVars, brushVars>>

\* f ends: it returns its values, or it raises an error.
FunctionEnds(t) ==
  /\ frames[t] # << >> /\ Top(t).phase = "running"
  /\ \E how \in { "returned", "raised" } :
       frames' = [frames EXCEPT ![t][Len(frames[t])].phase = how]
  /\ UNCHANGED <<owner, depth, seen, tick, used>>
  /\ UNCHANGED <<wrapperVars, contVars, jobVars, brushVars>>

\* with_suspend releases the lock and hands the values, or the error, on to
\* its caller.
WithSuspendExit(t) ==
  /\ frames[t] # << >> /\ Top(t).phase \in { "returned", "raised" }
  /\ depth' = DepthAfter(depth, Top(t).phase)
  /\ owner' = OwnerAfter(t, depth')
  /\ seen' = [seen EXCEPT ![t] =
                [kind   |-> IF Top(t).phase = "returned" THEN "values" ELSE "error",
                 before |-> Top(t).before,
                 after  |-> IF owner' = t THEN depth' ELSE 0]]
  /\ frames' = [frames EXCEPT ![t] = SubSeq(@, 1, Len(@) - 1)]
  /\ UNCHANGED <<tick, used>>
  /\ UNCHANGED <<wrapperVars, contVars, jobVars, brushVars>>

\* The game runs one more frame: it does so only while no thread holds the
\* suspend lock, and every thread may suspend again in the new frame.
GameFrame ==
  /\ owner = NoThread
  /\ tick < MaxTick
  /\ tick' = tick + 1
  /\ used' = {}
  /\ UNCHANGED <<owner, depth, frames, seen>>
  /\ UNCHANGED <<wrapperVars, contVars, jobVars, brushVars>>

SuspendNext ==
  \/ \E t \in Threads : WithSuspendCall(t)
  \/ \E t \in Threads : WithSuspendGrab(t)
  \/ \E t \in Threads : FunctionEnds(t)
  \/ \E t \in Threads : WithSuspendExit(t)
  \/ GameFrame

SpecSuspend == SuspendInit /\ [][SuspendNext]_vars

\* Thread t is inside a function called by with_suspend.
Inside(t) ==
  \E i \in 1..Len(frames[t]) : frames[t][i].phase # "waiting"

\* C13: the suspend lock is re-entrant: a thread that holds it and stands at
\* a nested with_suspend call is let in without waiting; the game runs no
\* frame from the outermost grab of a thread until its outermost release,
\* and a release at an inner nesting depth leaves the lock with its holder.
C13_ReentrantSuspend ==
  /\ [](\A t \in Threads :
         (frames[t] # << >> /\ Top(t).phase = "waiting" /\ owner = t)
         => CanSuspend(t))
  /\ [][ /\ tick' # tick => \A t \in Threads : ~Inside(t)
         /\ \A t \in Threads :
              (Inside(t) /\ Inside(t)') => (owner = t /\ owner' = t /\ depth' >= 1)
     ]_vars

C13_Witness ==
  \E t \in Threads :
    /\ Len(frames[t]) = 1 /\ Top(t).phase = "running"
    /\ seen[t].kind = "values" /\ seen[t].before = 1 /\ seen[t].after = 1
    /\ owner = t /\ depth = 1 /\ tick = 0

\* C14: with_suspend releases the lock it grabbed before its caller sees
\* the outcome: when f returned and when f raised an error alike the
\* nesting depth the thread holds after with_suspend is the one it held
\* before, and the caller gets the values, or the error, of f.
C14_SuspendReleased ==
  [][ \A t \in Threads :
        Len(frames'[t]) < Len(frames[t])
        => /\ seen'[t].after = seen'[t].before
           /\ Held(t)' = Top(t).before
           /\ seen'[t].kind = (IF Top(t).phase = "raised" THEN "error" ELSE "values")
    ]_vars

C14_Witness ==
  \E t \in Threads :
    /\ seen[t].kind = "error" /\ seen[t].before = 0 /\ seen[t].after = 0
    /\ frames[t] = << >> /\ owner = NoThread /\ depth = 0

\* ------------------------------------------------------------------------
\* ref[index] on strict and on relaxed containers
\* ------------------------------------------------------------------------
\* A vector is a strict container; a df-flagarray (BitArray) is the relaxed
\* one, which by its policy returns a default value or auto-resizes.
ContKinds == { [kind |-> "vector", policy |-> "strict"],
               [kind |-> "flagarray", policy |-> "default"],
               [kind |-> "flagarray", policy |-> "grow"] }

Relaxed(c) == c.kind = "flagarray"

\* The lua value of a stored element: a number, or a flag as a boolean.
ElemValue(c, x) == IF Relaxed(c) THEN (IF x = 1 THEN True ELSE False) ELSE Num(x)

DefaultValue(c) == ElemValue(c, 0)

\* #ref
ContLen(c) == Len(c.elems)

\* The container with its storage extended (or cut) to n elements.
Sized(c, n) ==
  [c EXCEPT !.elems = [j \in 1..n |-> IF j <= Len(c.elems) THEN c.elems[j] ELSE 0]]

\* Mutation of ReadElem: every container is read in the strict mode.
ReadElemStrict(c, i) ==
  IF i \in 0..(ContLen(c) - 1)
  THEN [err |-> "ok", val |-> ElemValue(c, c.elems[i + 1]), cont |-> c]
  ELSE [err |-> "IndexOutOfRange", val |-> Nil, cont |-> c]

\* v = ref[index]: accessing an invalid index is an error, but the relaxed
\* container returns a default value, or auto-resizes.
ReadElem(c, i) ==
  IF i \in 0..(ContLen(c) - 1)
  THEN [err |-> "ok", val |-> ElemValue(c, c.elems[i + 1]), cont |-> c]
  ELSE IF i < 0 \/ ~Relaxed(c)
  THEN [err |-> "IndexOutOfRange", val |-> Nil, cont |-> c]
  ELSE IF c.policy = "grow"
  THEN [err |-> "ok", val |-> DefaultValue(c), cont |-> Sized(c, i + 1)]
  ELSE [err |-> "ok", val |-> DefaultValue(c), cont |-> c]

\* ref[index] = value: the relaxed container auto-resizes for the index.
WriteElem(c, i, x) ==
  IF i \in 0..(ContLen(c) - 1)
  THEN [err |-> "ok", val |-> Nil, cont |-> [c EXCEPT !.elems[i + 1] = x]]
  ELSE IF i < 0 \/ ~Relaxed(c)
  THEN [err |-> "IndexOutOfRange", val |-> Nil, cont |-> c]
  ELSE [err |-> "ok", val |-> Nil,
        cont |-> [Sized(c, i + 1) EXCEPT !.elems[i + 1] = x]]

ContInit ==
  /\ \E k \in ContKinds : cont = [kind |-> k.kind, policy |-> k.policy, elems |-> << >>]
  /\ lastc = [op |-> "init", idx |-> 0, err |-> "ok", ret |-> Nil]
  /\ WrapperIdle /\ SuspendIdle /\ JobsIdle /\ BrushIdle

\* n = #ref
ContGetLength ==
  /\ lastc' = [op |-> "len", idx |-> 0, err |-> "ok", ret |-> Num(ContLen(cont))]
  /\ UNCHANGED cont
  /\ UNCHANGED <<wrapperVars, suspendVars, jobVars, brushVars>>

\* v = ref[index]
ContGet ==
  /\ \E i \in -1..MaxLen :
       LET r == ReadElem(cont, i) IN
       /\ cont' = r.cont
       /\ lastc' = [op |-> "get", idx |-> i, err |-> r.err, ret |-> r.val]
  /\ UNCHANGED <<wrapperVars, suspendVars, jobVars, brushVars>>

\* ref[index] = value
ContSet ==
  /\ \E i \in -1..MaxLen, x \in Ints :
       LET r == WriteElem(cont, i, x) IN
       /\ cont' = r.cont
       /\ lastc' = [op |-> "set", idx |-> i, err |-> r.err, ret |-> Nil]
  /\ UNCHANGED <<wrapperVars, suspendVars, jobVars, brushVars>>

\* ref:resize(new_size)
ContResize ==
  /\ \E n \in 0..MaxLen :
       /\ cont' = Sized(cont, n)
       /\ lastc' = [op |-> "resize", idx |-> n, err |-> "ok", ret |-> Nil]
  /\ UNCHANGED <<wrapperVars, suspendVars, jobVars, brushVars>>

ContNext ==
  \/ ContGetLength
  \/ ContGet
  \/ ContSet
  \/ ContResize

SpecCont == ContInit /\ [][ContNext]_vars

\* C15: on a relaxed container (bit/flag array) of length n, get(c, i) with
\* i >= n does not fail: it returns the default value and leaves the length
\* as it was, or it grows the container so that its length is at least
\* i+1 (the elements it had are kept); on a strict container the same
\* access fails with IndexOutOfRange and changes nothing.
C15_RelaxedGet ==
  [][ (lastc'.op = "get" /\ lastc'.idx >= ContLen(cont))
      => IF Relaxed(cont)
         THEN /\ lastc'.err = "ok"
              /\ lastc'.ret = DefaultValue(cont)
              /\ \/ cont' = cont
                 \/ /\ ContLen(cont') >= lastc'.idx + 1
                    /\ SubSeq(cont'.elems, 1, ContLen(cont)) = cont.elems
                    /\ ReadElem(cont', lastc'.idx).val = DefaultValue(cont)
         ELSE lastc'.err = "IndexOutOfRange" /\ cont' = cont
    ]_vars

C15_Witness ==
  /\ lastc.op = "get" /\ lastc.idx = MaxLen /\ lastc.err = "ok"
  /\ cont.kind = "flagarray" /\ cont.policy = "grow"
  /\ ContLen(cont) = MaxLen + 1
  /\ cont.elems[1] = 1
  /\ lastc.ret = False

\* ------------------------------------------------------------------------
\* Job structures: cloneJobStruct, deleteJobStruct, operator==,
\* linkJobIntoWorld
\* ------------------------------------------------------------------------
MaxJobs  == 3    \* df::job objects
MaxItems == 4    \* df::job_item objects
MaxRefs  == 4    \* df::general_ref objects
MaxId    == 3    \* job ids and *job_next_id range over 0..MaxId

ListHead  == 1                    \* &world->job_list

NoObject == [live |-> FALSE]

Live(pool) == { a \in DOMAIN pool : pool[a].live }

Unused(pool) == { a \in DOMAIN pool : ~pool[a].live }

Lowest(S) == CHOOSE a \in S : \A b \in S : a <= b

\* The fields operator== compares on a df::job and on a df::job_item.
JobCmpFields ==
  { "job_type", "unk2", "mat_type", "mat_index", "item_subtype",
    "item_category", "hist_figure_id", "material_category", "reaction_name" }

ItemCmpFields ==
  { "item_type", "item_subtype", "mat_type", "mat_index", "flags1",
    "quantity", "vector_id", "flags2", "flags3", "metal_ore",
    "reaction_class", "has_material_reaction_product", "min_dimension",
    "reagent_index", "reaction_id", "has_tool_use" }

\* The whole state of the job structures, handed through the functions.
World ==
  [jobs |-> jobs, job_items |-> job_items, general_refs |-> general_refs,
   job_list |-> job_list, job_next_id |-> job_next_id]

\* --- the world's job list ---
RECURSIVE LinkChain(_, _)
\* The links after link p, following next.
LinkChain(ls, p) ==
  IF ls[p].next = NULL THEN << >>
  ELSE << ls[p].next >> \o LinkChain(ls, ls[p].next)

\* The jobs along world->job_list, and their ids.
ListJobs(w) ==
  [i \in 1..Len(LinkChain(w.job_list, ListHead)) |->
     w.job_list[LinkChain(w.job_list, ListHead)[i]].item]

ListIds(w) == [i \in 1..Len(ListJobs(w)) |-> w.jobs[ListJobs(w)[i]].id]

\* linked_list_insert_after(pos, link)
LinkedListInsertAfter(ls, pos, link) ==
  LET nx  == ls[pos].next
      ls1 == [ls EXCEPT ![link].next = nx, ![link].prev = pos, ![pos].next = link]
  IN IF nx = NULL THEN ls1 ELSE [ls1 EXCEPT ![nx].prev = link]

RECURSIVE LastLink(_, _)
LastLink(ls, p) == IF ls[p].next = NULL THEN p ELSE LastLink(ls, ls[p].next)

\* linked_list_append(head, link)
LinkedListAppend(ls, head, link) == LinkedListInsertAfter(ls, LastLink(ls, head), link)

RECURSIVE InsPosPastEqual(_, _, _), InsPos(_, _, _)
\* Mutation of InsPos: the walk also passes the links with the same id.
InsPosPastEqual(w, p, id) ==
  IF /\ w.job_list[p].next # NULL
     /\ w.jobs[w.job_list[w.job_list[p].next].item].id <= id
  THEN InsPos(w, w.job_list[p].next, id)
  ELSE p

\* while (ins_pos->next && ins_pos->next->item->id < job->id)
\*     ins_pos = ins_pos->next;
InsPos(w, p, id) ==
  IF /\ w.job_list[p].next # NULL
     /\ w.jobs[w.job_list[w.job_list[p].next].item].id < id
  THEN InsPos(w, w.job_list[p].next, id)
  ELSE p

\* Mutation of IdTaken: no id counts as taken.
IdTakenNever(w, p, id) == FALSE

\* ins_pos->next && ins_pos->next->item->id == job->id
IdTaken(w, p, id) ==
  /\ w.job_list[p].next # NULL
  /\ w.jobs[w.job_list[w.job_list[p].next].item].id = id

\* Mutation of NextIdAfter: the counter is left as it is.
NextIdKept(n) == n

\* (*job_next_id)++
NextIdAfter(n) == n + 1

\* job->list_link = new df::job_list_link(); job->list_link->item = job;
NewLink(w, job) ==
  LET l == Lowest(Unused(w.job_list)) IN
  [w EXCEPT !.job_list[l] = [live |-> TRUE, item |-> job, prev |-> NULL, next |-> NULL],
            !.jobs[job].list_link = l]

\* linkJobIntoWorld(job, new_id): the world after the call, and the value
\* returned.
linkJobIntoWorld(w, job, new_id) ==
  IF new_id
  THEN LET w1 == [w EXCEPT !.jobs[job].id = w.job_next_id,
                           !.job_next_id = NextIdAfter(w.job_next_id)]
           w2 == NewLink(w1, job)
       IN [ret |-> TRUE,
           world |-> [w2 EXCEPT !.job_list =
                        LinkedListAppend(@, ListHead, w2.jobs[job].list_link)]]
  ELSE LET ins_pos == InsPos(w, ListHead, w.jobs[job].id) IN
       IF IdTaken(w, ins_pos, w.jobs[job].id)
       THEN [ret |-> FALSE, world |-> w]
       ELSE LET w2 == NewLink(w, job) IN
            [ret |-> TRUE,
             world |-> [w2 EXCEPT !.job_list =
                          LinkedListInsertAfter(@, ins_pos, w2.jobs[job].list_link)]]

\* --- cloneJobStruct ---
IsWorker(w, ref) == w.general_refs[ref].kind = "unit_worker"

\* Mutation of CloneFlags: the flags are copied whole.
CloneFlagsWhole(f) == f

\* pnew->flags.whole = 0; the bits repeat and suspend are those of job.
CloneFlags(f) == [repeat |-> f.repeat, suspend |-> f.suspend, others |-> 0]

RECURSIVE CloneRefs(_, _, _), CloneItemsShared(_, _, _), CloneItems(_, _, _)
\* for (i = references.size()-1; i >= 0; i--): a unit-worker reference is
\* erased, every other reference is replaced by its clone().
CloneRefs(w, pnew, i) ==
  IF i = 0 THEN w
  ELSE LET ref == w.jobs[pnew].references[i] IN
       IF IsWorker(w, ref)
       THEN CloneRefs([w EXCEPT !.jobs[pnew].references =
                          SubSeq(@, 1, i - 1) \o SubSeq(@, i + 1, Len(@))],
                      pnew, i - 1)
       ELSE LET c == Lowest(Unused(w.general_refs)) IN
            CloneRefs([w EXCEPT !.general_refs[c] = w.general_refs[ref],
                                !.jobs[pnew].references[i] = c], pnew, i - 1)

\* Mutation of CloneItems: the clone keeps the job_item pointers it copied.
CloneItemsShared(w, pnew, i) == w

\* for (i = job_items.size()-1; i >= 0; i--)
\*     pnew->job_items[i] = new df::job_item(*pnew->job_items[i]);
CloneItems(w, pnew, i) ==
  IF i = 0 THEN w
  ELSE LET c == Lowest(Unused(w.job_items)) IN
       CloneItems([w EXCEPT !.job_items[c] = w.job_items[w.jobs[pnew].job_items[i]],
                            !.jobs[pnew].job_items[i] = c], pnew, i - 1)

\* cloneJobStruct(job): the world after the call, and the job returned.
cloneJobStruct(w, job) ==
  LET pnew == Lowest(Unused(w.jobs))
      w1 == [w EXCEPT !.jobs[pnew] =
               [w.jobs[job] EXCEPT !.flags = CloneFlags(w.jobs[job].flags),
                                   !.list_link = NULL,
                                   !.completion_timer = -1,
                                   !.items = << >>,
                                   !.misc_links = << >>]]
      w2 == CloneRefs(w1, pnew, Len(w1.jobs[pnew].references))
      w3 == CloneItems(w2, pnew, Len(w2.jobs[pnew].job_items))
  IN [ret |-> pnew, world |-> w3]

\* --- deleteJobStruct ---
\* assert(!job->list_link && job->items.empty() && job->misc_links.empty())
FreeFloating(jb) ==
  jb.list_link = NULL /\ jb.items = << >> /\ jb.misc_links = << >>

Range(q) == { q[i] : i \in 1..Len(q) }

\* deleteJobStruct(job)
deleteJobStruct(w, job) ==
  IF job = NULL THEN w
  ELSE [w EXCEPT
          !.general_refs = [r \in DOMAIN @ |->
             IF r \in Range(w.jobs[job].references) THEN NoObject ELSE @[r]],
          !.job_items = [r \in DOMAIN @ |->
             IF r \in Range(w.jobs[job].job_items) THEN NoObject ELSE @[r]],
          !.jobs[job] = NoObject]

\* --- operator== ---
\* operator==(const df::job_item &a, const df::job_item &b)
ItemEquals(a, b) ==
  /\ \A f \in ItemCmpFields : a.vals[f] = b.vals[f]
  /\ Len(a.contains) = Len(b.contains)
  /\ \A i \in 1..Len(a.contains) : a.contains[i] = b.contains[i]

\* operator==(const df::job &a, const df::job &b)
JobEquals(w, a, b) ==
  /\ \A f \in JobCmpFields : a.vals[f] = b.vals[f]
  /\ Len(a.job_items) = Len(b.job_items)
  /\ \A i \in 1..Len(a.job_items) :
       ItemEquals(w.job_items[a.job_items[i]], w.job_items[b.job_items[i]])

\* --- the jobs the game hands to the functions ---
\* The compared fields F, all zero but f.
Vals(F, f) == [g \in F |-> IF g = f THEN 1 ELSE 0]

Ref(kind, target) == [live |-> TRUE, kind |-> kind, target |-> target]

Item(vals, contains) == [live |-> TRUE, vals |-> vals, contains |-> contains]

Flags(r, s, o) == [repeat |-> r, suspend |-> s, others |-> o]

\* The job without references and job items.
PlainJob ==
  [flags |-> Flags(0, 0, 0), completion_timer |-> -1, items |-> << >>,
   misc_links |-> << >>, refs |-> << >>, jitems |-> << >>, vals |-> Vals(JobCmpFields, "")]

SampleJobs ==
  { PlainJob,
    [flags |-> Flags(1, 0, 1), completion_timer |-> 2, items |-> << 1 >>,
     misc_links |-> << 1 >>,
     refs |-> << Ref("unit_worker", 0), Ref("building_holder", 1) >>,
     jitems |-> << Item(Vals(ItemCmpFields, "quantity"), << >>),
                   Item(Vals(ItemCmpFields, "mat_type"), << 1, 0 >>) >>,
     vals |-> Vals(JobCmpFields, "job_type")],
    [flags |-> Flags(0, 1, 1), completion_timer |-> -1, items |-> << >>,
     misc_links |-> << >>,
     refs |-> << Ref("building_holder", 1), Ref("unit_worker", 0),
                 Ref("building_holder", 0) >>,
     jitems |-> << Item(Vals(ItemCmpFields, "flags1"), << 1 >>) >>,
     vals |-> Vals(JobCmpFields, "reaction_name")],
    [flags |-> Flags(1, 1, 0), completion_timer |-> -1, items |-> << >>,
     misc_links |-> << >>, refs |-> << Ref("building_holder", 0) >>,
     jitems |-> << >>, vals |-> Vals(JobCmpFields, "hist_figure_id")] }

\* A job of the game as an object, with its references and job items in the
\* first objects of their pools.
JobOf(smp, id) ==
  [live |-> TRUE, id |-> id, list_link |-> NULL, flags |-> smp.flags,
   completion_timer |-> smp.completion_timer, items |-> smp.items,
   misc_links |-> smp.misc_links,
   references |-> [i \in 1..Len(smp.refs) |-> i],
   job_items |-> [i \in 1..Len(smp.jitems) |-> i],
   vals |-> smp.vals]

JobsInit ==
  /\ \E smp \in SampleJobs, id \in 0..MaxId, second \in { NULL } \cup { i + 1 : i \in 0..MaxId } :
       /\ jobs = [a \in 1..MaxJobs |->
                    CASE a = 1 -> JobOf(smp, id)
                      [] a = 2 /\ second # NULL -> JobOf(PlainJob, second - 1)
                      [] OTHER -> NoObject]
       /\ general_refs = [a \in 1..MaxRefs |->
                            IF a <= Len(smp.refs) THEN smp.refs[a] ELSE NoObject]
       /\ job_items = [a \in 1..MaxItems |->
                         IF a <= Len(smp.jitems) THEN smp.jitems[a] ELSE NoObject]
  /\ job_list = [a \in 1..(MaxJobs + 1) |->
                   IF a = ListHead
                   THEN [live |-> TRUE, item |-> NULL, prev |-> NULL, next |-> NULL]
                   ELSE NoObject]
  /\ job_next_id \in 0..MaxId
  /\ lastj = [op |-> "init", job |-> NULL, new_id |-> FALSE, ok |-> TRUE,
              pnew |-> NULL, below |-> TRUE, handed |-> -1]
  /\ WrapperIdle /\ SuspendIdle /\ ContIdle /\ BrushIdle

\* The variables take the world w.
Becomes(w) ==
  /\ jobs' = w.jobs
  /\ job_items' = w.job_items
  /\ general_refs' = w.general_refs
  /\ job_list' = w.job_list
  /\ job_next_id' = w.job_next_id

\* linkJobIntoWorld(job, new_id), called on a job that is not linked
\* (assert(!job->list_link)).
LinkJob ==
  /\ \E job \in Live(jobs), new_id \in BOOLEAN :
       /\ jobs[job].list_link = NULL
       /\ new_id => job_next_id < MaxId
       /\ LET r == linkJobIntoWorld(World, job, new_id) IN
          /\ Becomes(r.world)
          /\ lastj' = [op |-> "link", job |-> job, new_id |-> new_id,
                       ok |-> r.ret, pnew |-> NULL,
                       below |-> /\ lastj.below
                                 /\ (~new_id /\ r.ret) => jobs[job].id < job_next_id,
                       handed |-> IF new_id THEN r.world.jobs[job].id
                                  ELSE lastj.handed]
  /\ UNCHANGED <<wrapperVars, suspendVars, contVars, brushVars>>

\* pnew = cloneJobStruct(job), when the objects the clone needs are there to
\* allocate.
CloneJob ==
  /\ \E job \in Live(jobs) :
       /\ Unused(jobs) # {}
       /\ Cardinality(Unused(job_items)) >= Len(jobs[job].job_items)
       /\ Cardinality(Unused(general_refs)) >=
            Cardinality({ i \in 1..Len(jobs[job].references) :
                            ~IsWorker(World, jobs[job].references[i]) })
       /\ LET r == cloneJobStruct(World, job) IN
          /\ Becomes(r.world)
          /\ lastj' = [lastj EXCEPT !.op = "clone", !.job = job, !.new_id = FALSE,
                                    !.ok = TRUE, !.pnew = r.ret]
  /\ UNCHANGED <<wrapperVars, suspendVars, contVars, brushVars>>

\* deleteJobStruct(job), called on NULL or on a free-floating job
\* (the assertion of the function).
DeleteJob ==
  /\ \E job \in Live(jobs) \cup { NULL } :
       /\ job # NULL => FreeFloating(jobs[job])
       /\ Becomes(deleteJobStruct(World, job))
       /\ lastj' = [lastj EXCEPT !.op = "delete", !.job = job, !.new_id = FALSE,
                                 !.ok = TRUE, !.pnew = NULL]
  /\ UNCHANGED <<wrapperVars, suspendVars, contVars, brushVars>>

JobsNext ==
  \/ LinkJob
  \/ CloneJob
  \/ DeleteJob

SpecJobs == JobsInit /\ [][JobsNext]_vars

\* ---------------------------------------------------------------------------
\* Properties of the job list and of job clones
\* ---------------------------------------------------------------------------
Sorted(q)    == \A i, k \in 1..Len(q) : i < k => q[i] <= q[k]

StrictAsc(q) == \A i, k \in 1..Len(q) : i < k => q[i] < q[k]

\* the step is a call of linkJobIntoWorld(job, new_id)
LinkStep(new_id) == lastj'.op = "link" /\ lastj'.new_id = new_id

\* C16: linkJobIntoWorld(job, false) on a list sorted by id: when a linked job
\* has job's id the call returns false and neither the list, the job nor the
\* counter changes; otherwise it returns true, one new link whose item is the
\* job is inserted after the last link with a smaller id, and the list is
\* still sorted.
C16_LinkKeepsSorted ==
  [][ (LinkStep(FALSE) /\ Sorted(ListIds(World))) =>
      LET job  == lastj'.job
          id   == jobs[job].id
          L    == ListJobs(World)
          k    == Cardinality({ i \in 1..Len(L) : jobs[L[i]].id < id })
      IN  IF \E i \in 1..Len(L) : jobs[L[i]].id = id
          THEN /\ ~lastj'.ok
               /\ jobs' = jobs /\ job_list' = job_list
               /\ job_next_id' = job_next_id
          ELSE /\ lastj'.ok
               /\ jobs'[job].list_link \in Unused(job_list)
               /\ job_list'[jobs'[job].list_link].item = job
               /\ jobs' = [jobs EXCEPT ![job].list_link = jobs'[job].list_link]
               /\ ListJobs(World)' = SubSeq(L, 1, k) \o << job >> \o SubSeq(L, k + 1, Len(L))
               /\ Sorted(ListIds(World)')
               /\ job_next_id' = job_next_id ]_vars

\* a job was inserted between two linked jobs, and another call was refused
C16_Witness ==
  /\ lastj.op = "link" /\ ~lastj.new_id /\ lastj.ok
  /\ Len(ListJobs(World)) = 3
  /\ ListJobs(World)[2] = lastj.job
  /\ Sorted(ListIds(World))

\* C17 as stated: from an empty list, after any mix of calls with new_id true
\* and false on unlinked jobs, the ids along the list are strictly ascending.
C17_AlwaysAscending == StrictAsc(ListIds(World))

\* C17: from an empty list, the ids along the list are strictly ascending as
\* long as every successful call with new_id = false was made on a job whose id
\* was smaller than the counter *job_next_id at that call.
C17_AscendingBelowCounter == lastj.below => StrictAsc(ListIds(World))

\* both kinds of call have added to the list, the last one at its head
C17_Witness ==
  /\ lastj.op = "link" /\ ~lastj.new_id /\ lastj.ok /\ lastj.below
  /\ lastj.handed >= 0
  /\ Len(ListJobs(World)) >= 2
  /\ ListJobs(World)[1] = lastj.job

\* C18: linkJobIntoWorld(job, true) returns true, gives the job the old value
\* of *job_next_id, adds one to the counter and appends the job's new link at
\* the tail of the list; the ids it hands out are strictly increasing.
C18_NewIdAppends ==
  [][ LinkStep(TRUE) =>
      LET job == lastj'.job IN
      /\ lastj'.ok
      /\ jobs'[job].id = job_next_id
      /\ job_next_id' = job_next_id + 1
      /\ jobs'[job].list_link \in Unused(job_list)
      /\ job_list'[jobs'[job].list_link].item = job
      /\ job_list'[jobs'[job].list_link].next = NULL
      /\ ListJobs(World)' = Append(ListJobs(World), job)
      /\ lastj'.handed = jobs'[job].id
      /\ lastj'.handed > lastj.handed ]_vars

\* two ids were handed out in a row
C18_Witness ==
  /\ lastj.op = "link" /\ lastj.new_id
  /\ Len(ListJobs(World)) >= 2
  /\ lastj.handed >= 1
  /\ jobs[ListJobs(World)[Len(ListJobs(World)) - 1]].id = lastj.handed - 1

\* the step is pnew = cloneJobStruct(job)
CloneStep == lastj'.op = "clone"

\* C19: the clone is free-floating: no list link, no items, no misc links,
\* completion_timer -1, all flags zero except repeat and suspend, which are
\* the original's, and no unit-worker reference; deleteJobStruct's assertion
\* holds of it.
C19_CloneFreeFloating ==
  [][ CloneStep =>
      LET c == jobs'[lastj'.pnew]
          o == jobs[lastj'.job]
      IN  /\ lastj'.pnew \in Unused(jobs)
          /\ c.live
          /\ c.list_link = NULL
          /\ c.items = << >>
          /\ c.misc_links = << >>
          /\ c.completion_timer = -1
          /\ c.flags = Flags(o.flags.repeat, o.flags.suspend, 0)
          /\ \A r \in Range(c.references) : general_refs'[r].kind # "unit_worker"
          /\ FreeFloating(c) ]_vars

\* a linked job with items, a worker and other flags was cloned
C19_Witness ==
  /\ lastj.op = "clone"
  /\ jobs[lastj.job].live
  /\ jobs[lastj.job].list_link # NULL
  /\ jobs[lastj.job].items # << >>
  /\ jobs[lastj.job].flags.others = 1
  /\ jobs[lastj.job].flags.repeat = 1
  /\ \E r \in Range(jobs[lastj.job].references) : general_refs[r].kind = "unit_worker"

\* the objects at the addresses of q, in order
Objects(pool, q) == [i \in 1..Len(q) |-> pool[q[i]]]

Injective(q) == \A i, k \in 1..Len(q) : q[i] = q[k] => i = k

\* C20: the clone equals the original under operator==; its job items and
\* references are fresh objects, copies of the original's in the original
\* order, none shared with the original; deleting a job leaves every other job
\* and the objects it owns untouched.
C20_CloneEqualAndDisjoint ==
  [][ /\ CloneStep =>
         LET pnew == lastj'.pnew
             job  == lastj'.job
             c    == jobs'[pnew]
             o    == jobs[job]
             kept == SelectSeq(o.references, LAMBDA r : general_refs[r].kind # "unit_worker")
         IN  /\ JobEquals(World', c, jobs'[job])
             /\ JobEquals(World', jobs'[job], c)
             /\ Range(c.job_items) \subseteq Unused(job_items)
             /\ Range(c.references) \subseteq Unused(general_refs)
             /\ Injective(c.job_items) /\ Injective(c.references)
             /\ Objects(job_items', c.job_items) = Objects(job_items, o.job_items)
             /\ Objects(general_refs', c.references) = Objects(general_refs, kept)
             /\ jobs'[job] = o
             /\ \A a \in Live(job_items) : job_items'[a] = job_items[a]
             /\ \A a \in Live(general_refs) : general_refs'[a] = general_refs[a]
      /\ lastj'.op = "delete" =>
         \A j \in Live(jobs) \ { lastj'.job } :
            /\ jobs'[j] = jobs[j]
            /\ \A a \in Range(jobs[j].job_items) :
                 job_items[a].live /\ job_items'[a] = job_items[a]
            /\ \A a \in Range(jobs[j].references) :
                 general_refs[a].live /\ general_refs'[a] = general_refs[a] ]_vars

\* a clone with job items and references was deleted while its original lives
C20_Witness ==
  /\ lastj.op = "delete"
  /\ lastj.job # NULL
  /\ \E j \in Live(jobs) :
       /\ Len(jobs[j].job_items) = 2
       /\ Len(jobs[j].references) = 2
       /\ \A a \in Range(jobs[j].job_items) : job_items[a].live
       /\ Cardinality(Live(job_items)) = 2
       /\ Cardinality(Live(jobs)) = 1

\* ------------------------------------------------------------------------
\* Brushes: ColumnBrush::points and FloodBrush::points over a map cache
\* ------------------------------------------------------------------------
MaxX      == 2     \* the flooded map is MaxX by MaxY by MaxZ tiles
MaxY      == 1
MaxZ      == 2
MaxHeight == 4     \* the map of the column is MaxHeight tiles high

\* The tiles a map is made of: the bits of the designation that the flood
\* reads, and whether the tile type is LowPassable and HighPassable.
TileKinds ==
  { [flow_size |-> 1, liquid_type |-> "Water", low |-> l, high |-> h] :
      l \in BOOLEAN, h \in BOOLEAN }
  \cup { [flow_size |-> 0, liquid_type |-> "Water", low |-> TRUE, high |-> TRUE],
         [flow_size |-> 1, liquid_type |-> "Magma", low |-> TRUE, high |-> TRUE] }

\* mc.testCoord(c): the coordinate is a tile of the map.
testCoord(c) == c \in DOMAIN tiles

\* mc.designationAt(c): the designation of the tile, all bits zero off the map.
designationAt(c) ==
  IF testCoord(c) THEN tiles[c]
  ELSE [flow_size |-> 0, liquid_type |-> "Water", low |-> FALSE, high |-> FALSE]

\* A coordinate moved by d.
Moved(c, d) == << c[1] + d[1], c[2] + d[2], c[3] + d[3] >>

\* --- FloodBrush ---
\* void maybeFlood(DFCoord c, std::stack<DFCoord> &to_flood, MapCache &mc)
maybeFlood(c, stack) == IF testCoord(c) THEN Append(stack, c) ELSE stack

\* Mutation of FloodMoves: up and down whatever the tile type.
FloodMovesAnyTile(xy) ==
  << << -1, 0, 0 >>, << 1, 0, 0 >>, << 0, -1, 0 >>, << 0, 1, 0 >>,
     << 0, 0, -1 >>, << 0, 0, 1 >> >>

\* The moves from a flooded tile xy, in the order of the maybeFlood calls.
FloodMoves(xy) ==
  << << -1, 0, 0 >>, << 1, 0, 0 >>, << 0, -1, 0 >>, << 0, 1, 0 >> >>
  \o (IF tiles[xy].low THEN << << 0, 0, -1 >> >> ELSE << >>)
  \o (IF tiles[xy].high THEN << << 0, 0, 1 >> >> ELSE << >>)

RECURSIVE Flood(_, _, _)
\* The stack after the maybeFlood calls for the moves ms from xy.
Flood(xy, ms, stack) ==
  IF ms = << >> THEN stack
  ELSE Flood(xy, Tail(ms), maybeFlood(Moved(xy, Head(ms)), stack))

\* FloodBrush::points(mc, start) is called: to_flood.push(start).
FloodInit ==
  /\ tiles \in [(0..(MaxX - 1)) \X (0..(MaxY - 1)) \X (0..(MaxZ - 1)) -> TileKinds]
  /\ brush = "flood"
  /\ origin \in DOMAIN tiles \cup { << MaxX, 0, 0 >> }
  /\ start = origin /\ juststarted = TRUE
  /\ to_flood = << origin >> /\ flood_seen = {} /\ points = << >>
  /\ done = FALSE
  /\ WrapperIdle /\ SuspendIdle /\ ContIdle /\ JobsIdle

\* One turn of while (!to_flood.empty()).
FloodStep ==
  /\ brush = "flood" /\ ~done /\ to_flood # << >>
  /\ LET xy   == to_flood[Len(to_flood)]
         rest == SubSeq(to_flood, 1, Len(to_flood) - 1)
         des  == designationAt(xy)
     IN  IF xy \notin flood_seen /\ des.flow_size # 0 /\ des.liquid_type = "Water"
         THEN /\ points' = Append(points, xy)
              /\ flood_seen' = flood_seen \cup { xy }
              /\ to_flood' = Flood(xy, FloodMoves(xy), rest)
         ELSE /\ to_flood' = rest
              /\ UNCHANGED <<points, flood_seen>>
  /\ UNCHANGED <<tiles, brush, origin, start, juststarted, done>>
  /\ UNCHANGED <<wrapperVars, suspendVars, contVars, jobVars>>

\* The stack is empty: return v.
FloodReturn ==
  /\ brush = "flood" /\ ~done /\ to_flood = << >>
  /\ done' = TRUE
  /\ UNCHANGED <<tiles, brush, origin, start, juststarted, to_flood, flood_seen, points>>
  /\ UNCHANGED <<wrapperVars, suspendVars, contVars, jobVars>>

FloodNext ==
  \/ FloodStep
  \/ FloodReturn

\* A call that has begun goes on until it returns.
SpecFlood == FloodInit /\ [][FloodNext]_vars /\ WF_vars(FloodNext)

\* --- ColumnBrush ---
\* Mutation of ColumnPasses: a HighPassable tile passes anywhere in the column.
ColumnPassesHighAnywhere(tt, first) == tt.low \/ tt.high

\* DFHack::LowPassable(tt) || juststarted && DFHack::HighPassable(tt)
ColumnPasses(tt, first) == tt.low \/ (first /\ tt.high)

\* ColumnBrush::points(mc, start) is called.
ColumnInit ==
  /\ tiles \in [{ 0 } \X { 0 } \X (0..(MaxHeight - 1)) -> TileKinds]
  /\ brush = "column"
  /\ origin \in DOMAIN tiles \cup { << 0, 0, MaxHeight >> }
  /\ start = origin /\ juststarted = TRUE
  /\ to_flood = << >> /\ flood_seen = {} /\ points = << >>
  /\ done = FALSE
  /\ WrapperIdle /\ SuspendIdle /\ ContIdle /\ JobsIdle

\* One turn of while (mc.testCoord(start)) that does not break.
ColumnStep ==
  /\ brush = "column" /\ ~done
  /\ testCoord(start) /\ ColumnPasses(tiles[start], juststarted)
  /\ points' = Append(points, start)
  /\ juststarted' = FALSE
  /\ start' = Moved(start, << 0, 0, 1 >>)
  /\ UNCHANGED <<tiles, brush, origin, to_flood, flood_seen, done>>
  /\ UNCHANGED <<wrapperVars, suspendVars, contVars, jobVars>>

\* The loop ends, at its condition or at break: return v.
ColumnReturn ==
  /\ brush = "column" /\ ~done
  /\ ~(testCoord(start) /\ ColumnPasses(tiles[start], juststarted))
  /\ done' = TRUE
  /\ UNCHANGED <<tiles, brush, origin, start, juststarted, to_flood, flood_seen, points>>
  /\ UNCHANGED <<wrapperVars, suspendVars, contVars, jobVars>>

ColumnNext ==
  \/ ColumnStep
  \/ ColumnReturn

SpecColumn == ColumnInit /\ [][ColumnNext]_vars /\ WF_vars(ColumnNext)

\* ------------------------------------------------------------------------
\* Properties of the brushes
\* ------------------------------------------------------------------------
\* a tile of the map with nonzero flow_size and liquid type Water
WaterTile(c) ==
  c \in DOMAIN tiles /\ tiles[c].flow_size # 0 /\ tiles[c].liquid_type = "Water"

\* one step from the tile c: to a horizontal neighbour, down from a
\* LowPassable tile, up from a HighPassable tile
StepsFrom(c) ==
  { Moved(c, d) : d \in { << -1, 0, 0 >>, << 1, 0, 0 >>, << 0, -1, 0 >>, << 0, 1, 0 >> } }
  \cup (IF tiles[c].low THEN { Moved(c, << 0, 0, -1 >>) } ELSE {})
  \cup (IF tiles[c].high THEN { Moved(c, << 0, 0, 1 >>) } ELSE {})

RECURSIVE ReachFrom(_)
\* the water tiles reached from the water tiles R by any number of steps
ReachFrom(R) ==
  LET more == { c \in UNION { StepsFrom(r) : r \in R } : WaterTile(c) } \ R
  IN  IF more = {} THEN R ELSE ReachFrom(R \cup more)

\* C21: FloodBrush::points terminates, and what it returns holds each tile
\* once and is precisely the set of water tiles reached from start by steps
\* between water tiles of the map (sideways, down from a LowPassable tile, up
\* from a HighPassable tile); it is empty when start is not a water tile.
C21_FloodReachable ==
  /\ [](done =>
          /\ \A i, k \in 1..Len(points) : points[i] = points[k] => i = k
          /\ { points[i] : i \in 1..Len(points) } =
               IF WaterTile(origin) THEN ReachFrom({ origin }) ELSE {})
  /\ <>done

\* the flood went sideways and up or down from a start that is neither Low-
\* nor HighPassable, and left out a tile of magma
C21_Witness ==
  /\ brush = "flood" /\ done
  /\ Len(points) = 3
  /\ \E i \in 1..Len(points) : points[i][3] # origin[3]
  /\ \E i \in 1..Len(points) : points[i][1] # origin[1]
  /\ ~tiles[origin].low /\ ~tiles[origin].high
  /\ \E c \in DOMAIN tiles :
       tiles[c].liquid_type = "Magma" /\ \A i \in 1..Len(points) : points[i] # c

\* the tile i tiles above the start of the column
Above(i) == Moved(origin, << 0, 0, i >>)

\* the claim's condition for the tile i tiles above the start
InColumn(i) ==
  /\ Above(i) \in DOMAIN tiles
  /\ IF i = 0 THEN tiles[Above(i)].low \/ tiles[Above(i)].high
     ELSE tiles[Above(i)].low

\* C22: ColumnBrush::points terminates and returns the run start.z,
\* start.z+1, ... at the x,y of start up to the first tile that fails: the first
\* tile passes iff it is on the map and Low- or HighPassable, a later one iff
\* it is on the map and LowPassable; nothing above the first failure is
\* returned.
C22_ColumnRun ==
  /\ [](done =>
          LET n == CHOOSE k \in 0..MaxHeight :
                     ~InColumn(k) /\ \A i \in 0..(k - 1) : InColumn(i)
          IN  points = [i \in 1..n |-> Above(i - 1)])
  /\ <>done

\* a column that begins on a tile that is only HighPassable, goes on over a
\* LowPassable tile and stops below a tile that is only HighPassable, with a
\* LowPassable tile above that one
C22_Witness ==
  /\ brush = "column" /\ done
  /\ Len(points) = 2
  /\ Above(3) \in DOMAIN tiles
  /\ ~tiles[origin].low
  /\ tiles[Above(2)].high /\ ~tiles[Above(2)].low
  /\ tiles[Above(3)].low
====
